---- MODULE Spec2Model ----
(***************************************************************************)
(* Model of the two file-copy programs of the repository:                  *)
(*   variant "raw"    : unixcopy.c         (open/read/write/fsync/close)   *)
(*   variant "stdlib" : unixcopy-stdlib.c  (fopen/fread/fwrite/fflush/     *)
(*                      fsync/fclose), kept in src/unnamed/part_000        *)
(* One run of main() is one behaviour.  The file system, the command line  *)
(* and the outcome of every system/library call are the environment.       *)
(***************************************************************************)
EXTENDS Integers, Sequences, FiniteSets, TLC

VARIABLES
  variant,        \* which of the two programs runs
  opts,           \* options of argv not yet returned by getopt
  args,           \* positional arguments of argv (paths)
  fs,             \* file system: [links: path -> file id, inodes: id -> file]
  fs0,            \* the file system as it was when the program started
  umask,          \* file-mode creation mask of the process
  pc,             \* position of main()
  status,         \* exit status; -1 while main() has not returned
  stderr,         \* sequence of the diagnostics printed so far
  bufsize,        \* long bufsize
  st_src,         \* struct stat st_src (dev, ino, isDir)
  st_dst,         \* struct stat st_dst
  dst_exists,     \* int dst_exists
  srcOpen,        \* fd_src / fsrc is an open handle
  dstOpen,        \* fd_dst / fdst is an open handle
  srcPos,         \* file offset of the source handle
  bufLive,        \* buf is allocated and not yet freed
  buf,            \* bytes the last read stored at the start of buf
  nread,          \* nread
  remaining,      \* raw: remaining
  outp,           \* raw: outp - buf
  written_total,  \* stdlib: written_total
  pending,        \* stdlib: bytes held in fdst's stream buffer, not yet written
  hist,           \* history: which calls were made and which of them failed
  shell           \* the invoking shell: the command line as typed, and the
                  \* result of an earlier run of the same command line

vars == <<variant, opts, args, fs, fs0, umask, pc, status, stderr, bufsize,
          st_src, st_dst, dst_exists, srcOpen, dstOpen, srcPos, bufLive, buf,
          nread, remaining, outp, written_total, pending, hist, shell>>

----------------------------------------------------------------------------
(* Bounds of the model *)

\* longest source file, in bytes
MaxLen == 3
\* most options on a command line
MaxOpts == 2
\* capacity of the destination stream's buffer (BUFSIZ, scaled down)
StreamBufCap == 2

----------------------------------------------------------------------------
(* Program constants *)

EXIT_SUCCESS == 0
EXIT_FAILURE == 1
\* long bufsize = 4096
DefaultBufSize == 4096
\* LONG_MAX / LONG_MIN of <limits.h>, for a build whose long has 32 bits
LONG_MAX == 2147483647
LONG_MIN == -LONG_MAX - 1

\* permission bits, as sets
P0600 == {"ur", "uw"}
P0644 == {"ur", "uw", "gr", "or"}
P0666 == {"ur", "uw", "gr", "gw", "or", "ow"}
\* the mode argument of open(dst_path, O_WRONLY | O_CREAT | O_TRUNC, 0644)
RawCreateMode == P0644
\* fopen(dst_path, "wb") creates with 0666
StdlibCreateMode == P0666
\* chmod(dst_path, 0644)
ChmodMode == P0644

----------------------------------------------------------------------------
(* strtol and parse_bufsize *)

DigitChars == {"0", "1", "2", "3", "4", "5", "6", "7", "8", "9"}
DigitVal(c) ==
  CASE c = "0" -> 0 [] c = "1" -> 1 [] c = "2" -> 2 [] c = "3" -> 3
    [] c = "4" -> 4 [] c = "5" -> 5 [] c = "6" -> 6 [] c = "7" -> 7
    [] c = "8" -> 8 [] c = "9" -> 9

RECURSIVE SkipSpace(_, _)
SkipSpace(s, i) ==
  IF i <= Len(s) /\ s[i] = " " THEN SkipSpace(s, i + 1) ELSE i

\* digits from position i on: magnitude (saturating at LONG_MAX), the index of
\* the first character not consumed, and whether the magnitude overflowed
RECURSIVE ScanDigits(_, _, _, _)
ScanDigits(s, i, acc, over) ==
  IF i > Len(s) \/ s[i] \notin DigitChars
    THEN [mag |-> acc, end |-> i, over |-> over]
    ELSE LET d == DigitVal(s[i]) IN
         IF over \/ acc > (LONG_MAX - d) \div 10
           THEN ScanDigits(s, i + 1, LONG_MAX, TRUE)
           ELSE ScanDigits(s, i + 1, acc * 10 + d, FALSE)

\* strtol(s, &end, 10): value, index of *end (Len(s)+1 is the terminating NUL)
\* and whether errno is ERANGE afterwards
strtol(s) ==
  LET i0   == SkipSpace(s, 1)
      sign == i0 <= Len(s) /\ s[i0] \in {"+", "-"}
      neg  == sign /\ s[i0] = "-"
      i1   == IF sign THEN i0 + 1 ELSE i0
      r    == ScanDigits(s, i1, 0, FALSE)
  IN  IF r.end = i1
        THEN [v |-> 0, end |-> 1, erange |-> FALSE]
        ELSE [v |-> IF r.over THEN (IF neg THEN LONG_MIN ELSE LONG_MAX)
                    ELSE IF neg THEN -r.mag ELSE r.mag,
              end |-> r.end,
              erange |-> r.over]

\* parse_bufsize with v < 0 in place of v <= 0
parse_bufsize_AcceptsZero(s) ==
  LET r == strtol(s) IN
  IF Len(s) = 0 \/ r.end <= Len(s)
    THEN [err |-> 1, v |-> 0]
    ELSE IF (r.erange /\ (r.v = LONG_MAX \/ r.v = LONG_MIN)) \/ r.v < 0
      THEN [err |-> 1, v |-> 0]
      ELSE [err |-> 0, v |-> r.v]

\* parse_bufsize(s, &err): [err, v]
parse_bufsize(s) ==
  LET r == strtol(s) IN
  IF Len(s) = 0 \/ r.end <= Len(s)
    THEN [err |-> 1, v |-> 0]
    ELSE IF (r.erange /\ (r.v = LONG_MAX \/ r.v = LONG_MIN)) \/ r.v <= 0
      THEN [err |-> 1, v |-> 0]
      ELSE [err |-> 0, v |-> r.v]

----------------------------------------------------------------------------
(* The environment: command lines and file systems *)

Paths == {"p", "q"}
\* a file is identified by its (st_dev, st_ino) pair
FileIds == {<<1, 1>>, <<1, 2>>, <<2, 1>>}
NoFile == <<0, 0>>
Bytes == {"a", "b"}
Contents == UNION {[1..n -> Bytes] : n \in 0..MaxLen}
\* what a file other than the source holds before the run
OldContent == <<"z", "z">>
OldPerms == {P0600, P0666}
Umasks == {{}, {"gw", "ow"}, {"gr", "gw", "or", "ow"}}
Vacant == [isDir |-> FALSE, content |-> <<>>, perm |-> {}]

\* the file system in which path "p" names file lp and path "q" names file lq
FsOf(lp, lq, dp, dq, c, pm) ==
  [links  |-> [x \in Paths |-> IF x = "p" THEN lp ELSE lq],
   inodes |-> [id \in FileIds |->
                 IF id = lp
                   THEN [isDir |-> dp, content |-> IF dp THEN <<>> ELSE c, perm |-> pm]
                 ELSE IF id = lq
                   THEN [isDir |-> dq, content |-> IF dq THEN <<>> ELSE OldContent,
                         perm |-> pm]
                 ELSE Vacant]]

AllFs ==
  {FsOf(lp, lq, dp, dq, c, pm) :
     lp \in {NoFile, <<1, 1>>}, lq \in FileIds \cup {NoFile},
     dp \in BOOLEAN, dq \in BOOLEAN, c \in Contents, pm \in OldPerms}

\* a few file systems, used with the full set of command lines
FewFs ==
  {FsOf(lp, lq, dp, FALSE, <<"a", "b">>, P0600) :
     lp \in {NoFile, <<1, 1>>}, lq \in {NoFile, <<1, 2>>}, dp \in BOOLEAN}

\* the argument of a -b option
BufArgs ==
  {<<>>, <<"0">>, <<"-", "5">>, <<"a", "b", "c">>, <<"2", "x">>,
   <<"9", "9", "9", "9", "9", "9", "9", "9", "9", "9">>,
   <<"1">>, <<"2">>, <<" ", "+", "3">>}

\* one option of the command line: -b ARG, -b without argument, -h, -x
Option(n, h, a) == [name |-> n, hasArg |-> h, arg |-> a]
Options ==
  {Option("b", TRUE, a) : a \in BufArgs}
    \cup {Option("b", FALSE, <<>>), Option("h", FALSE, <<>>), Option("x", FALSE, <<>>)}
\* -b lacks its argument only as the last word of the command line
OptSeqs ==
  {s \in UNION {[1..n -> Options] : n \in 0..MaxOpts} :
     \A i \in 1..(Len(s) - 1) : s[i].name = "b" => s[i].hasArg}
GoodOptSeqs ==
  {<<>>} \cup {<<Option("b", TRUE, a)>> : a \in {<<"1">>, <<"2">>, <<" ", "+", "3">>}}
ArgLists == {<<>>, <<"p">>, <<"p", "p">>, <<"p", "q">>, <<"p", "q", "p">>}

NoStat == [dev |-> 0, ino |-> 0, isDir |-> FALSE]
NoHist ==
  [parsed |-> {}, statCalls |-> {}, openCalls |-> {}, chmodCalled |-> FALSE,
   loopStarted |-> FALSE, rwFailed |-> FALSE, writeFailed |-> FALSE,
   stalled |-> FALSE, reads |-> 0, shortRead |-> FALSE, partialWrite |-> FALSE,
   chunkOut |-> <<>>]
\* the destination as the shell sees it after a run
NoDst == [exists |-> FALSE, content |-> <<>>, perm |-> {}]

Init ==
  /\ variant \in {"raw", "stdlib"}
  /\ \/ /\ opts \in OptSeqs
        /\ args \in ArgLists
        /\ fs \in FewFs
        /\ umask = {"gw", "ow"}
     \/ /\ opts \in GoodOptSeqs
        /\ args \in {<<"p", "p">>, <<"p", "q">>}
        /\ fs \in AllFs
        /\ umask \in Umasks
  /\ fs0 = fs
  /\ pc = "getopt"
  /\ status = -1
  /\ stderr = <<>>
  /\ bufsize = DefaultBufSize
  /\ st_src = NoStat
  /\ st_dst = NoStat
  /\ dst_exists = FALSE
  /\ srcOpen = FALSE
  /\ dstOpen = FALSE
  /\ srcPos = 0
  /\ bufLive = FALSE
  /\ buf = <<>>
  /\ nread = 0
  /\ remaining = 0
  /\ outp = 0
  /\ written_total = 0
  /\ pending = <<>>
  /\ hist = NoHist
  /\ shell = [kind |-> "none", opts |-> opts, status |-> -1, dst |-> NoDst]

----------------------------------------------------------------------------
(* Helpers *)

Min(a, b) == IF a < b THEN a ELSE b
src_path == args[1]
dst_path == args[2]

\* stat(path, &st): whether it succeeds, and the fields the program reads
Stat(f, path) ==
  LET id == f.links[path] IN
  IF id = NoFile
    THEN [ok |-> FALSE, st |-> NoStat]
    ELSE [ok |-> TRUE,
          st |-> [dev |-> id[1], ino |-> id[2], isDir |-> f.inodes[id].isDir]]

\* a directory test that never answers yes
S_ISDIR_Never(st) == FALSE

\* S_ISDIR(st.st_mode)
S_ISDIR(st) == st.isDir

\* the same-file test with the inode comparison inverted
SameFile_Inverted(a, b) == a.dev = b.dev /\ a.ino # b.ino

\* st_src.st_dev == st_dst.st_dev && st_src.st_ino == st_dst.st_ino
SameFile(a, b) == a.dev = b.dev /\ a.ino = b.ino

\* the destination opened for appending: an existing file keeps its bytes
CreateOrTrunc_Append(f, path, mode, mask) ==
  IF f.links[path] # NoFile
    THEN f
    ELSE LET id == CHOOSE i \in FileIds : \A x \in Paths : f.links[x] # i IN
         [f EXCEPT !.links[path] = id,
                   !.inodes[id] = [isDir |-> FALSE, content |-> <<>>,
                                   perm |-> mode \ mask]]

\* open(path, O_WRONLY | O_CREAT | O_TRUNC, mode) / fopen(path, "wb"), succeeding:
\* an existing file is truncated and keeps its permission bits, a missing one is
\* created empty with mode & ~umask
CreateOrTrunc(f, path, mode, mask) ==
  IF f.links[path] # NoFile
    THEN [f EXCEPT !.inodes[f.links[path]].content = <<>>]
    ELSE LET id == CHOOSE i \in FileIds : \A x \in Paths : f.links[x] # i IN
         [f EXCEPT !.links[path] = id,
                   !.inodes[id] = [isDir |-> FALSE, content |-> <<>>,
                                   perm |-> mode \ mask]]

\* bytes appended to the file that path names
Append2File(f, path, bytes) ==
  [f EXCEPT !.inodes[f.links[path]].content = @ \o bytes]

\* chmod(path, mode), succeeding
SetPerm(f, path, mode) == [f EXCEPT !.inodes[f.links[path]].perm = mode]

SrcContent == fs.inodes[fs.links[src_path]].content
DstContent == fs.inodes[fs.links[dst_path]].content

\* main() returns code after printing msgs
Return(code, msgs) ==
  /\ pc' = "exit"
  /\ status' = code
  /\ stderr' = stderr \o msgs

----------------------------------------------------------------------------
(* Argument parsing: the getopt loop and the count of positional arguments *)

loopVars == <<srcPos, buf, nread, remaining, outp, written_total, pending>>
statVars == <<st_src, st_dst, dst_exists>>
handleVars == <<srcOpen, dstOpen, bufLive>>
envVars == <<variant, args, fs0, umask, shell>>

\* case 'b': bufsize = parse_bufsize(optarg, &parse_err)
GetoptB ==
  /\ pc = "getopt"
  /\ opts # <<>>
  /\ Head(opts).name = "b" /\ Head(opts).hasArg
  /\ LET r == parse_bufsize(Head(opts).arg) IN
       /\ bufsize' = r.v
       /\ hist' = [hist EXCEPT !.parsed = @ \cup {Head(opts).arg}]
       /\ IF r.err # 0
            THEN /\ Return(EXIT_FAILURE, <<"InvalidBufferSize">>)
                 /\ opts' = opts
            ELSE /\ opts' = Tail(opts)
                 /\ UNCHANGED <<pc, status, stderr>>
  /\ UNCHANGED <<envVars, fs, statVars, handleVars, loopVars>>

\* case 'h' without its return: control falls into case '?'
GetoptH_FallsThrough ==
  /\ pc = "getopt"
  /\ opts # <<>>
  /\ Head(opts).name = "h"
  /\ Return(EXIT_FAILURE, <<"Usage", "UnknownOption", "Usage">>)
  /\ UNCHANGED <<envVars, opts, fs, bufsize, statVars, handleVars, loopVars, hist>>

\* case 'h': usage(prog); return EXIT_SUCCESS
GetoptH ==
  /\ pc = "getopt"
  /\ opts # <<>>
  /\ Head(opts).name = "h"
  /\ Return(EXIT_SUCCESS, <<"Usage">>)
  /\ UNCHANGED <<envVars, opts, fs, bufsize, statVars, handleVars, loopVars, hist>>

\* case '?': an option that lacks its argument, or an unknown option
GetoptUnknown ==
  /\ pc = "getopt"
  /\ opts # <<>>
  /\ \/ Head(opts).name = "b" /\ ~Head(opts).hasArg
     \/ Head(opts).name \notin {"b", "h"}
  /\ Return(EXIT_FAILURE,
            <<IF Head(opts).name = "b" THEN "MissingOptArg" ELSE "UnknownOption",
              "Usage">>)
  /\ UNCHANGED <<envVars, opts, fs, bufsize, statVars, handleVars, loopVars, hist>>

\* getopt returns -1; argc - optind is then compared with 2
CheckArgs ==
  /\ pc = "getopt"
  /\ opts = <<>>
  /\ IF Len(args) < 2
       THEN Return(EXIT_FAILURE, <<"MissingArgs", "Usage">>)
     ELSE IF Len(args) > 2
       THEN Return(EXIT_FAILURE, <<"TooManyArgs", "Usage">>)
     ELSE /\ pc' = "stat_src"
          /\ UNCHANGED <<status, stderr>>
  /\ UNCHANGED <<envVars, opts, fs, bufsize, statVars, handleVars, loopVars, hist>>

----------------------------------------------------------------------------
(* Validation of source and destination *)

\* stat(src_path, &st_src) without the S_ISDIR test on the source
StatSrc_NoDirTest ==
  /\ pc = "stat_src"
  /\ hist' = [hist EXCEPT !.statCalls = @ \cup {"src"}]
  /\ LET r == Stat(fs, src_path) IN
       IF ~r.ok
         THEN /\ Return(EXIT_FAILURE, <<"SourceUnreadable">>)
              /\ UNCHANGED st_src
       ELSE /\ st_src' = r.st
            /\ pc' = "stat_dst"
            /\ UNCHANGED <<status, stderr>>
  /\ UNCHANGED <<envVars, opts, fs, bufsize, st_dst, dst_exists, handleVars, loopVars>>

\* stat(src_path, &st_src) and the S_ISDIR test
StatSrc ==
  /\ pc = "stat_src"
  /\ hist' = [hist EXCEPT !.statCalls = @ \cup {"src"}]
  /\ LET r == Stat(fs, src_path) IN
       IF ~r.ok
         THEN /\ Return(EXIT_FAILURE, <<"SourceUnreadable">>)
              /\ UNCHANGED st_src
       ELSE /\ st_src' = r.st
            /\ IF S_ISDIR(r.st)
                 THEN Return(EXIT_FAILURE, <<"SourceIsDirectory">>)
                 ELSE /\ pc' = "stat_dst"
                      /\ UNCHANGED <<status, stderr>>
  /\ UNCHANGED <<envVars, opts, fs, bufsize, st_dst, dst_exists, handleVars, loopVars>>

\* dst_exists = (stat(dst_path, &st_dst) == 0), the S_ISDIR test and the
\* same-file test
StatDst ==
  /\ pc = "stat_dst"
  /\ hist' = [hist EXCEPT !.statCalls = @ \cup {"dst"}]
  /\ LET r == Stat(fs, dst_path) IN
       /\ dst_exists' = r.ok
       /\ st_dst' = r.st
       /\ IF r.ok /\ S_ISDIR(r.st)
            THEN Return(EXIT_FAILURE, <<"DestinationIsDirectory">>)
          ELSE IF r.ok /\ SameFile(st_src, r.st)
            THEN Return(EXIT_FAILURE, <<"SameFile">>)
          ELSE /\ pc' = "open_src"
               /\ UNCHANGED <<status, stderr>>
  /\ UNCHANGED <<envVars, opts, fs, bufsize, st_src, handleVars, loopVars>>

----------------------------------------------------------------------------
(* Opening the files, the permission bits, the buffer *)

\* the mode a missing destination is created with, before the umask applies
CreateMode(v) == IF v = "raw" THEN RawCreateMode ELSE StdlibCreateMode

\* chmod without the !dst_exists test
CallsChmod_Always(v, existed) == v = "stdlib"

\* whether the program calls chmod(dst_path, 0644) once the destination is open:
\* the stdlib program does when the destination did not exist, the raw one never
CallsChmod(v, existed) == v = "stdlib" /\ ~existed

\* the destination-open failure path without close(fd_src)
SrcAfterDstOpenFailure_Leak(open) == open

\* the source handle after the destination failed to open: close(fd_src)
SrcAfterDstOpenFailure(open) == FALSE

\* the source-open failure path without its return
OpenSrc_IgnoresFailure ==
  /\ pc = "open_src"
  /\ hist' = [hist EXCEPT !.openCalls = @ \cup {"src"}]
  /\ \E ok \in BOOLEAN :
       /\ srcOpen' = ok
       /\ pc' = "open_dst"
       /\ stderr' = IF ok THEN stderr ELSE Append(stderr, "SourceOpenFailed")
       /\ UNCHANGED status
  /\ UNCHANGED <<envVars, opts, fs, bufsize, statVars, dstOpen, bufLive, loopVars>>

\* open(src_path, O_RDONLY) / fopen(src_path, "rb")
OpenSrc ==
  /\ pc = "open_src"
  /\ hist' = [hist EXCEPT !.openCalls = @ \cup {"src"}]
  /\ \E ok \in BOOLEAN :
       IF ok
         THEN /\ srcOpen' = TRUE
              /\ pc' = "open_dst"
              /\ UNCHANGED <<status, stderr>>
         ELSE /\ Return(EXIT_FAILURE, <<"SourceOpenFailed">>)
              /\ UNCHANGED srcOpen
  /\ UNCHANGED <<envVars, opts, fs, bufsize, statVars, dstOpen, bufLive, loopVars>>

\* open(dst_path, O_WRONLY | O_CREAT | O_TRUNC, 0644) / fopen(dst_path, "wb")
OpenDst ==
  /\ pc = "open_dst"
  /\ hist' = [hist EXCEPT !.openCalls = @ \cup {"dst"}]
  /\ \E ok \in BOOLEAN :
       IF ok
         THEN /\ fs' = CreateOrTrunc(fs, dst_path, CreateMode(variant), umask)
              /\ dstOpen' = TRUE
              /\ pc' = IF CallsChmod(variant, dst_exists) THEN "chmod" ELSE "alloc"
              /\ UNCHANGED <<status, stderr, srcOpen>>
         ELSE /\ Return(EXIT_FAILURE, <<"DestinationOpenFailed">>)
              /\ srcOpen' = SrcAfterDstOpenFailure(srcOpen)
              /\ UNCHANGED <<fs, dstOpen>>
  /\ UNCHANGED <<envVars, opts, bufsize, statVars, bufLive, loopVars>>

\* chmod(dst_path, 0644); a failure is a warning
Chmod ==
  /\ pc = "chmod"
  /\ hist' = [hist EXCEPT !.chmodCalled = TRUE]
  /\ \E ok \in BOOLEAN :
       IF ok
         THEN /\ fs' = SetPerm(fs, dst_path, ChmodMode)
              /\ UNCHANGED stderr
         ELSE /\ stderr' = Append(stderr, "Warning:chmod")
              /\ UNCHANGED fs
  /\ pc' = "alloc"
  /\ UNCHANGED <<envVars, opts, status, bufsize, statVars, handleVars, loopVars>>

\* the exit path of a fatal error after both files were opened:
\* free(buf); close(fd_src); close(fd_dst); return EXIT_FAILURE.
\* fclose(fdst) writes what the stream still buffers, and that write may fail
Abort(msg) ==
  /\ Return(EXIT_FAILURE, <<msg>>)
  /\ bufLive' = FALSE
  /\ srcOpen' = FALSE
  /\ dstOpen' = FALSE
  /\ \E ok \in BOOLEAN :
       fs' = IF ok /\ pending # <<>> THEN Append2File(fs, dst_path, pending) ELSE fs
  /\ pending' = <<>>

\* the bufsize <= 0 test and malloc((size_t)bufsize)
AllocBuffer ==
  /\ pc = "alloc"
  /\ IF bufsize <= 0
       THEN /\ Abort("BufferSizeNotPositive")
            /\ UNCHANGED hist
       ELSE \E ok \in BOOLEAN :
              IF ok
                THEN /\ bufLive' = TRUE
                     /\ pc' = "read"
                     /\ hist' = [hist EXCEPT !.loopStarted = TRUE]
                     /\ UNCHANGED <<status, stderr, srcOpen, dstOpen, fs, pending>>
                ELSE /\ Abort("AllocFailed")
                     /\ UNCHANGED hist
  /\ UNCHANGED <<envVars, opts, bufsize, statVars, srcPos, buf, nread, remaining,
                 outp, written_total>>

----------------------------------------------------------------------------
(* The transfer loop of unixcopy.c *)

\* the count argument of read(fd_src, buf, (size_t)bufsize)
ReadRequest_OneByte(bs) == 1
ReadRequest(bs) == bs

\* nread = read(fd_src, buf, bufsize): -1, 0 at end of file, or 1..bufsize bytes
RawRead ==
  /\ pc = "read"
  /\ variant = "raw"
  /\ LET avail == Len(SrcContent) - srcPos
         most  == Min(ReadRequest(bufsize), avail)
     IN
     \E n \in {-1} \cup (IF avail = 0 THEN {0} ELSE 1..most) :
       /\ nread' = n
       /\ IF n < 0
            THEN /\ Abort("ReadFailed")
                 /\ hist' = [hist EXCEPT !.rwFailed = TRUE, !.reads = @ + 1]
                 /\ UNCHANGED <<srcPos, buf, remaining, outp>>
          ELSE IF n = 0
            THEN /\ pc' = "sync"
                 /\ hist' = [hist EXCEPT !.reads = @ + 1]
                 /\ UNCHANGED <<status, stderr, handleVars, fs, pending,
                                srcPos, buf, remaining, outp>>
          ELSE /\ buf' = SubSeq(SrcContent, srcPos + 1, srcPos + n)
               /\ srcPos' = srcPos + n
               /\ outp' = 0
               /\ remaining' = n
               /\ pc' = "write"
               /\ hist' = [hist EXCEPT !.reads = @ + 1,
                                       !.shortRead = @ \/ n < most,
                                       !.chunkOut = <<>>]
               /\ UNCHANGED <<status, stderr, handleVars, fs, pending>>
  /\ UNCHANGED <<envVars, opts, bufsize, statVars, written_total>>

\* outp += nwritten
AdvanceOutp_Stuck(o, nwritten) == o
AdvanceOutp(o, nwritten) == o + nwritten

\* nwritten = write(fd_dst, outp, remaining): -1, or 0..remaining bytes
RawWrite ==
  /\ pc = "write"
  /\ variant = "raw"
  /\ remaining > 0
  /\ \E nwritten \in -1..remaining :
       IF nwritten < 0
         THEN /\ Abort("WriteFailed")
              /\ hist' = [hist EXCEPT !.rwFailed = TRUE, !.writeFailed = TRUE]
              /\ UNCHANGED <<remaining, outp>>
         ELSE /\ fs' = Append2File(fs, dst_path, SubSeq(buf, outp + 1, outp + nwritten))
              /\ remaining' = remaining - nwritten
              /\ outp' = AdvanceOutp(outp, nwritten)
              /\ hist' = [hist EXCEPT
                            !.stalled = @ \/ nwritten = 0,
                            !.partialWrite = @ \/ (0 < nwritten /\ nwritten < remaining),
                            !.chunkOut = @ \o SubSeq(buf, outp + 1, outp + nwritten)]
              /\ pc' = IF remaining - nwritten > 0 THEN "write" ELSE "read"
              /\ UNCHANGED <<status, stderr, handleVars, pending>>
  /\ UNCHANGED <<envVars, opts, bufsize, statVars, srcPos, buf, nread, written_total>>

\* fsync(fd_dst); a failure is a warning
RawSync ==
  /\ pc = "sync"
  /\ variant = "raw"
  /\ \E ok \in BOOLEAN :
       stderr' = IF ok THEN stderr ELSE Append(stderr, "Warning:fsync")
  /\ pc' = "release"
  /\ UNCHANGED <<envVars, opts, fs, status, bufsize, statVars, handleVars, loopVars,
                 hist>>

----------------------------------------------------------------------------
(* The transfer loop of unixcopy-stdlib.c *)

\* what fread(ptr, size, nmemb, stream) returns with avail bytes left in the
\* file: the number of complete items
fread_items(avail, size, nmemb) == Min(avail \div size, nmemb)
\* and the bytes it stores and consumes
fread_bytes(avail, size, nmemb) == Min(avail, size * nmemb)

\* nread = fread(buf, (size_t)bufsize, 1, fsrc), and ferror(fsrc) once it is 0
StdlibRead ==
  /\ pc = "read"
  /\ variant = "stdlib"
  /\ LET avail == Len(SrcContent) - srcPos
         got   == fread_bytes(avail, bufsize, 1)
         items == fread_items(avail, bufsize, 1)
     IN \E ok \in BOOLEAN :
          IF ~ok
            THEN /\ nread' = 0
                 /\ Abort("ReadFailed")
                 /\ hist' = [hist EXCEPT !.rwFailed = TRUE, !.reads = @ + 1]
                 /\ UNCHANGED <<srcPos, buf, written_total>>
            ELSE /\ nread' = items
                 /\ buf' = SubSeq(SrcContent, srcPos + 1, srcPos + got)
                 /\ srcPos' = srcPos + got
                 /\ written_total' = IF items > 0 THEN 0 ELSE written_total
                 /\ pc' = IF items > 0 THEN "write" ELSE "sync"
                 /\ hist' = [hist EXCEPT !.reads = @ + 1, !.chunkOut = <<>>]
                 /\ UNCHANGED <<status, stderr, handleVars, fs, pending>>
  /\ UNCHANGED <<envVars, opts, bufsize, statVars, remaining, outp>>

\* nw = fwrite(buf + written_total, nread - written_total, 1, fdst): one item of
\* nread - written_total bytes.  It is stored in the stream's buffer, which is
\* written to the file first when the item does not fit
StdlibWrite ==
  /\ pc = "write"
  /\ variant = "stdlib"
  /\ written_total < nread
  /\ LET size == nread - written_total
         data == SubSeq(buf, written_total + 1, written_total + size)
     IN \E outcome \in {"ok", "error", "stall"} :
          CASE outcome = "ok" ->
                 /\ IF Len(pending) + Len(data) > StreamBufCap
                      THEN /\ fs' = Append2File(fs, dst_path, pending)
                           /\ pending' = data
                      ELSE /\ pending' = pending \o data
                           /\ UNCHANGED fs
                 /\ written_total' = written_total + 1
                 /\ pc' = IF written_total + 1 < nread THEN "write" ELSE "read"
                 /\ hist' = [hist EXCEPT !.chunkOut = @ \o data]
                 /\ UNCHANGED <<status, stderr, handleVars>>
            [] outcome = "error" ->
                 /\ Abort("WriteFailed")
                 /\ hist' = [hist EXCEPT !.rwFailed = TRUE, !.writeFailed = TRUE]
                 /\ UNCHANGED written_total
            [] outcome = "stall" ->
                 /\ Abort("ShortWriteStalled")
                 /\ hist' = [hist EXCEPT !.stalled = TRUE]
                 /\ UNCHANGED written_total
  /\ UNCHANGED <<envVars, opts, bufsize, statVars, srcPos, buf, nread, remaining, outp>>

\* fflush(fdst), then fsync(fileno(fdst)) when the flush succeeded; a failure of
\* either is a warning.  fflush has nothing to fail on when no byte is buffered
StdlibSync ==
  /\ pc = "sync"
  /\ variant = "stdlib"
  /\ \E flushed \in BOOLEAN, synced \in BOOLEAN :
       /\ pending = <<>> => flushed
       /\ IF flushed
            THEN /\ fs' = IF pending # <<>> THEN Append2File(fs, dst_path, pending) ELSE fs
                 /\ pending' = <<>>
                 /\ stderr' = IF synced THEN stderr ELSE Append(stderr, "Warning:fsync")
                 /\ UNCHANGED hist
            ELSE /\ stderr' = Append(stderr, "Warning:fflush")
                 /\ hist' = [hist EXCEPT !.writeFailed = TRUE]
                 /\ UNCHANGED <<fs, pending>>
  /\ pc' = "release"
  /\ UNCHANGED <<envVars, opts, status, bufsize, statVars, handleVars, srcPos, buf,
                 nread, remaining, outp, written_total>>

----------------------------------------------------------------------------
(* Release *)

\* a warning turned into a failure status
FinalStatus_FailOnWarning(warned) == IF warned THEN EXIT_FAILURE ELSE EXIT_SUCCESS

\* the status main() returns after the transfer loop ended at end of file;
\* warned: whether a warning was printed
FinalStatus(warned) == EXIT_SUCCESS

\* free(buf); close both handles, a failure being a warning; return EXIT_SUCCESS.
\* fclose(fdst) writes what the stream still buffers
Release ==
  /\ pc = "release"
  /\ \E closedSrc \in BOOLEAN, closedDst \in BOOLEAN :
       /\ fs' = IF closedDst /\ pending # <<>>
                  THEN Append2File(fs, dst_path, pending) ELSE fs
       /\ hist' = IF ~closedDst /\ pending # <<>>
                    THEN [hist EXCEPT !.writeFailed = TRUE] ELSE hist
       /\ LET out == stderr
                       \o (IF closedSrc THEN <<>> ELSE <<"Warning:closeSrc">>)
                       \o (IF closedDst THEN <<>> ELSE <<"Warning:closeDst">>)
          IN /\ stderr' = out
             /\ status' = FinalStatus(out # <<>>)
  /\ pc' = "exit"
  /\ pending' = <<>>
  /\ bufLive' = FALSE
  /\ srcOpen' = FALSE
  /\ dstOpen' = FALSE
  /\ UNCHANGED <<envVars, opts, bufsize, statVars, srcPos, buf, nread, remaining,
                 outp, written_total>>

----------------------------------------------------------------------------
Next ==
  \/ GetoptB \/ GetoptH \/ GetoptUnknown \/ CheckArgs
  \/ StatSrc \/ StatDst
  \/ OpenSrc \/ OpenDst \/ Chmod \/ AllocBuffer
  \/ RawRead \/ RawWrite \/ RawSync
  \/ StdlibRead \/ StdlibWrite \/ StdlibSync
  \/ Release

Spec == Init /\ [][Next]_vars

----------------------------------------------------------------------------
(* A second run of the same command line, started by the shell once main()  *)
(* has returned                                                             *)

\* diagnostics that report a failed system or library call
EnvDiags ==
  {"SourceOpenFailed", "DestinationOpenFailed", "AllocFailed", "ReadFailed",
   "WriteFailed", "ShortWriteStalled", "Warning:chmod", "Warning:fflush",
   "Warning:fsync", "Warning:closeSrc", "Warning:closeDst"}
\* no call of this run failed
NoCallFailed == \A i \in 1..Len(stderr) : stderr[i] \notin EnvDiags
\* and every read and write transferred all it was asked for
AllCallsFull ==
  NoCallFailed /\ ~hist.shortRead /\ ~hist.partialWrite /\ ~hist.stalled

\* what the second positional argument names in file system f
DstState(f) ==
  IF Len(args) >= 2 /\ f.links[args[2]] # NoFile
    THEN [exists |-> TRUE,
          content |-> f.inodes[f.links[args[2]]].content,
          perm |-> f.inodes[f.links[args[2]]].perm]
    ELSE NoDst

\* main() is entered again: program v, the same argv, file system f
Restart(kind, v, f) ==
  /\ pc = "exit"
  /\ shell.kind = "none"
  /\ shell' = [shell EXCEPT !.kind = kind, !.status = status, !.dst = DstState(fs)]
  /\ variant' = v
  /\ fs' = f
  /\ fs0' = f
  /\ opts' = shell.opts
  /\ pc' = "getopt"
  /\ status' = -1
  /\ stderr' = <<>>
  /\ bufsize' = DefaultBufSize
  /\ st_src' = NoStat
  /\ st_dst' = NoStat
  /\ dst_exists' = FALSE
  /\ srcOpen' = FALSE
  /\ dstOpen' = FALSE
  /\ srcPos' = 0
  /\ bufLive' = FALSE
  /\ buf' = <<>>
  /\ nread' = 0
  /\ remaining' = 0
  /\ outp' = 0
  /\ written_total' = 0
  /\ pending' = <<>>
  /\ hist' = NoHist
  /\ UNCHANGED <<args, umask>>

\* the other program is run on the same arguments and the same initial files
RunOtherProgram ==
  /\ AllCallsFull
  /\ Restart("other", IF variant = "raw" THEN "stdlib" ELSE "raw", fs0)

\* the same program is run a second time on the files the first run left
RunAgain ==
  /\ NoCallFailed
  /\ Restart("again", variant, fs)

NextRerun == Next \/ RunOtherProgram \/ RunAgain

SpecRerun == Init /\ [][NextRerun]_vars

----------------------------------------------------------------------------
(* Properties *)

LastDiag == IF stderr = <<>> THEN "" ELSE stderr[Len(stderr)]
Printed(m) == \E i \in 1..Len(stderr) : stderr[i] = m
\* no file was opened, created, truncated or had its permission bits set
Untouched == fs = fs0 /\ hist.openCalls = {} /\ ~hist.chmodCalled
FailedWith(m) == pc = "exit" /\ status = EXIT_FAILURE /\ LastDiag = m

\* C1: whenever a copy exits with success status, the destination's bytes
\* equal the source's bytes, for every buffer size and in both programs.
C1_CopyIsExact ==
  (pc = "exit" /\ status = EXIT_SUCCESS /\ hist.loopStarted)
    => DstContent = SrcContent

\* C2: a write that reports zero bytes written with no error ends the run with
\* a failure status in both programs; it is never re-issued.
C2_StalledWriteIsFatal ==
  hist.stalled => FailedWith("ShortWriteStalled")

\* the -b arguments of the model that are not positive integers in range
InvalidBufArgs ==
  {<<>>, <<"0">>, <<"-", "5">>, <<"a", "b", "c">>, <<"2", "x">>,
   <<"9", "9", "9", "9", "9", "9", "9", "9", "9", "9">>}

\* source and destination name one regular file, by the same path or a hard link
SameFile0 ==
  /\ Len(args) = 2
  /\ fs0.links[args[1]] # NoFile
  /\ fs0.links[args[1]] = fs0.links[args[2]]
  /\ ~fs0.inodes[fs0.links[args[1]]].isDir

\* C3: when the destination is the same (device, inode) as the source, no file is
\* ever opened or truncated, and the run that examines the destination ends
\* with the same-file error and a failure status.
C3_SameFileRejected ==
  SameFile0 =>
    /\ Untouched
    /\ "dst" \in hist.statCalls => FailedWith("SameFile")

C3_Witness ==
  /\ SameFile0
  /\ args[1] # args[2]
  /\ fs0.inodes[fs0.links[args[1]]].content # <<>>
  /\ FailedWith("SameFile")

\* C4: a failure to write the source's bytes to the destination, also one that
\* shows only when the stream is flushed or closed, ends in a failure status.
C4_WriteFailureIsFatal ==
  (pc = "exit" /\ hist.writeFailed) => status = EXIT_FAILURE

\* C5: when main() has returned, no handle is open and no buffer is live.
C5_AllReleased ==
  pc = "exit" => ~srcOpen /\ ~dstOpen /\ ~bufLive

C5_Witness ==
  /\ FailedWith("WriteFailed")
  /\ hist.openCalls = {"src", "dst"}
  /\ ~srcOpen /\ ~dstOpen /\ ~bufLive

\* C6: a run that reached the transfer loop and whose reads and writes all
\* succeeded exits with status 0, whatever warnings were printed.
C6_WarningsKeepSuccess ==
  (pc = "exit" /\ hist.loopStarted /\ ~hist.rwFailed /\ ~hist.stalled)
    => status = EXIT_SUCCESS

C6_Witness ==
  /\ pc = "exit"
  /\ status = EXIT_SUCCESS
  /\ Printed("Warning:chmod")
  /\ Printed("Warning:fflush")
  /\ Printed("Warning:closeSrc")
  /\ Printed("Warning:closeDst")

\* C7: once the option loop meets a -b argument that is not a positive integer
\* in range, the run has ended with the invalid-buffer-size diagnostic and a
\* failure status, and no file was opened, created or truncated.
C7_InvalidBufSizeRejected ==
  (hist.parsed \cap InvalidBufArgs # {})
    => FailedWith("InvalidBufferSize") /\ Untouched

C7_Witness ==
  /\ FailedWith("InvalidBufferSize")
  /\ <<"0">> \in hist.parsed
  /\ <<"2">> \in hist.parsed
  /\ Len(args) = 2
  /\ fs.links[args[1]] # NoFile
  /\ fs.links[args[2]] = NoFile

SrcIsDir0 ==
  /\ Len(args) >= 1
  /\ fs0.links[args[1]] # NoFile
  /\ fs0.inodes[fs0.links[args[1]]].isDir

\* C8: when the source is a directory the destination is never created, opened,
\* truncated or chmod-ed, and the run that examines the source ends with the
\* source-is-directory error and a failure status.
C8_SourceDirRejected ==
  SrcIsDir0 =>
    /\ Untouched
    /\ "src" \in hist.statCalls => FailedWith("SourceIsDirectory")

C8_Witness ==
  /\ SrcIsDir0
  /\ FailedWith("SourceIsDirectory")
  /\ Len(args) = 2
  /\ fs.links[args[2]] # NoFile
  /\ ~fs.inodes[fs.links[args[2]]].isDir

DstExisted0 == Len(args) >= 2 /\ fs0.links[args[2]] # NoFile

\* C9: a destination that existed before the call keeps its permission bits in
\* every state of the run, and chmod is never called on it.
C9_ExistingPermKept ==
  DstExisted0 =>
    /\ ~hist.chmodCalled
    /\ fs.inodes[fs0.links[args[2]]].perm = fs0.inodes[fs0.links[args[2]]].perm

C9_Witness ==
  /\ DstExisted0
  /\ variant = "stdlib"
  /\ pc = "exit"
  /\ status = EXIT_SUCCESS
  /\ hist.loopStarted
  /\ fs.inodes[fs0.links[args[2]]].content # fs0.inodes[fs0.links[args[2]]].content

\* C10: when the destination did not exist and both files are open, chmod to
\* 0644 has been attempted before the transfer loop, in both programs.
C10_ChmodBeforeTransfer ==
  (pc \in {"alloc", "read", "write", "sync", "release"} /\ ~dst_exists)
    => hist.chmodCalled

\* C11: run on the same arguments and the same initial files, with every call
\* succeeding in full, the two programs end with the same exit status, the
\* same destination bytes and the same destination permission bits.
C11_ProgramsAgree ==
  (shell.kind = "other" /\ pc = "exit" /\ AllCallsFull)
    => status = shell.status /\ DstState(fs) = shell.dst

\* C12: with no failed call, a second run of the same command line leaves the
\* destination's bytes and permission bits as the first run left them.
C12_Idempotent ==
  (shell.kind = "again" /\ pc = "exit" /\ NoCallFailed)
    => DstState(fs) = shell.dst

C12_Witness ==
  /\ shell.kind = "again"
  /\ pc = "exit"
  /\ NoCallFailed
  /\ status = EXIT_SUCCESS
  /\ shell.status = EXIT_SUCCESS
  /\ hist.partialWrite
  /\ Len(shell.dst.content) = MaxLen
  /\ DstState(fs0) = shell.dst

\* C13: when getopt reaches -h the program prints the usage text and exits with
\* success, whatever options and positional arguments follow, and no file is
\* touched.
C13_HelpShortCircuits ==
  (opts # <<>> /\ Head(opts).name = "h") =>
    /\ Untouched
    /\ hist.statCalls = {}
    /\ \/ pc = "getopt"
       \/ pc = "exit" /\ status = EXIT_SUCCESS /\ stderr = <<"Usage">>

C13_Witness ==
  /\ pc = "exit"
  /\ status = EXIT_SUCCESS
  /\ stderr = <<"Usage">>
  /\ Len(opts) = 2
  /\ opts[1].name = "h"
  /\ opts[2] = Option("b", TRUE, <<"0">>)
  /\ Len(args) = 3

\* the first precondition check that fails on the files as they were at the
\* start, "" when all five pass
FirstFailedCheck ==
  LET s == fs0.links[args[1]]
      d == fs0.links[args[2]]
  IN  IF s = NoFile THEN "SourceUnreadable"
      ELSE IF fs0.inodes[s].isDir THEN "SourceIsDirectory"
      ELSE IF d # NoFile /\ fs0.inodes[d].isDir THEN "DestinationIsDirectory"
      ELSE IF d # NoFile /\ d = s THEN "SameFile"
      ELSE ""
ValidationDiags ==
  {"SourceUnreadable", "SourceIsDirectory", "DestinationIsDirectory", "SameFile"}

\* C14: the checks run in the order source stat, source directory, destination
\* stat, destination directory, same file; the only diagnostic is that of the
\* first check that fails, and no later check runs.
C14_FirstFailureWins ==
  "src" \in hist.statCalls =>
    LET e == FirstFailedCheck IN
      CASE e \in {"SourceUnreadable", "SourceIsDirectory"} ->
             FailedWith(e) /\ stderr = <<e>> /\ "dst" \notin hist.statCalls
        [] e \in {"DestinationIsDirectory", "SameFile"} ->
             /\ hist.openCalls = {}
             /\ \/ pc = "stat_dst" /\ stderr = <<>>
                \/ FailedWith(e) /\ stderr = <<e>> /\ "dst" \in hist.statCalls
        [] OTHER ->
             /\ \A m \in ValidationDiags : ~Printed(m)
             /\ pc = "stat_dst" \/ "dst" \in hist.statCalls

C14_Witness ==
  /\ FailedWith("SourceIsDirectory")
  /\ args = <<"p", "p">>
  /\ "dst" \notin hist.statCalls

\* C15: whenever a read is about to be issued, and when the loop has ended, the
\* bytes written since the last read are exactly the bytes that read obtained.
C15_ChunkWrittenBeforeNextRead ==
  pc \in {"read", "sync"} => hist.chunkOut = buf

Ceil(n, b) == (n + b - 1) \div b
\* a successful copy all of whose reads returned as much as was available
FullReadsCopy ==
  pc = "exit" /\ status = EXIT_SUCCESS /\ hist.loopStarted /\ ~hist.shortRead

\* C16 as stated: a successful copy of N bytes with buffer size B and full reads
\* issues exactly ceil(N/B) reads.
C16_CeilReads ==
  FullReadsCopy => hist.reads = Ceil(Len(SrcContent), bufsize)

\* C16 as amended: the raw program issues ceil(N/B) + 1 reads, the last of which
\* returns 0; the stdlib program issues floor(N/B) + 1 freads.
C16_ReadsWithFinalRead ==
  FullReadsCopy =>
    hist.reads = IF variant = "raw"
                   THEN Ceil(Len(SrcContent), bufsize) + 1
                   ELSE (Len(SrcContent) \div bufsize) + 1

C16_Witness ==
  /\ FullReadsCopy
  /\ variant = "raw"
  /\ Len(SrcContent) = MaxLen
  /\ bufsize = 2
  /\ hist.reads = Ceil(MaxLen, 2) + 1
  /\ DstContent = SrcContent

IsPrefix(a, b) == Len(a) <= Len(b) /\ a = SubSeq(b, 1, Len(a))
\* the destination has been opened by this run
DstWasOpened ==
  \/ pc \in {"chmod", "alloc", "read", "write", "sync", "release"}
  \/ pc = "exit" /\ "dst" \in hist.openCalls /\ ~Printed("DestinationOpenFailed")

\* C17: in the raw program, once the destination is open, its bytes are a
\* prefix of the source's bytes in every state, whatever reads and writes do.
C17_RawDstIsPrefix ==
  (variant = "raw" /\ DstWasOpened) => IsPrefix(DstContent, SrcContent)

C17_Witness ==
  /\ variant = "raw"
  /\ FailedWith("WriteFailed")
  /\ hist.partialWrite
  /\ hist.shortRead
  /\ Len(SrcContent) = MaxLen
  /\ Len(DstContent) = MaxLen - 1
  /\ IsPrefix(DstContent, SrcContent)

\* C18: the destination is opened, created or truncated only after both stats
\* passed and the source was opened; when the source fails to open the run
\* ends in failure with every file as it was.
C18_DstOnlyAfterSrcOpen ==
  /\ Printed("SourceOpenFailed") =>
       FailedWith("SourceOpenFailed") /\ fs = fs0 /\ "dst" \notin hist.openCalls
  /\ fs # fs0 => "dst" \in hist.openCalls
  /\ "dst" \in hist.openCalls =>
       /\ hist.statCalls = {"src", "dst"}
       /\ "src" \in hist.openCalls
       /\ FirstFailedCheck = ""

C18_Witness ==
  /\ FailedWith("SourceOpenFailed")
  /\ DstExisted0
  /\ DstContent = OldContent
  /\ fs = fs0

====
